---- MODULE Spec2Model ----
(***************************************************************************)
(* State-machine models of the Advent of Code 2025 puzzle programs:        *)
(*   Day 7  : the row-by-row beam simulation and the memoized count_paths  *)
(*   Day 9  : the largest-rectangle programs (part 1, part 2, brute force) *)
(*   Day 10 : the light BFS and the three counter solvers with their mains *)
(* Every program is a batch run: read input, compute, print, exit.  The    *)
(* variable prog names the program a behaviour runs, pc its position.      *)
(***************************************************************************)
EXTENDS Integers, Sequences, FiniteSets, TLC

VARIABLES
    prog,            \* the program this behaviour runs
    pc,              \* its position: a label of the running program
    grid,            \* Day 7: the parsed grid
    row,             \* Day 7 part 1: loop variable r
    current_beams,   \* Day 7 part 1: set of active columns
    splits,          \* Day 7 part 1: split counter
    cp_stack,        \* Day 7 part 2: the call stack of count_paths
    memo,            \* Day 7 part 2: the memo dictionary
    body_runs,       \* Day 7 part 2: how often the body ran, per position
    cp_ret,          \* Day 7 part 2: the value the last return delivered
    argc,            \* mains: the number of command-line words
    file_ok,         \* mains: whether the input file can be opened
    exit_code,       \* mains: the exit status, -1 while running
    out,             \* mains: what was printed to standard output
    err,             \* mains: what was printed to standard error
    machines,        \* Day 10: the machines of the input, one per line
    mi,              \* Day 10: the number of the machine being processed
    max_presses,     \* Day 10 part 2: max_presses_per_button of the call
    q,               \* Day 10: the solver's queue
    min_cost,        \* Day 10: min_cost (Dijkstra) / dist (minPresses)
    visited,         \* Day 10 part 2 (bounded): visited
    best_cost,       \* Day 10 part 2 (bounded): best_cost
    result,          \* Day 10: the value the solver returned
    total,           \* Day 10: total / total_presses
    machine_count,   \* Day 10 part 2: machine_count
    points,          \* Day 9: the points / red tiles read so far
    line,            \* Day 9 part 1: the line getline delivered last
    lines_read,      \* Day 9 part 1: how many lines were delivered
    v_edges,         \* Day 9 part 2: vertical polygon edges, sorted by x
    h_edges,         \* Day 9 part 2: horizontal polygon edges, sorted by y
    pi,              \* Day 9: outer loop index i
    pj,              \* Day 9: inner loop index j
    max_area         \* Day 9: max_area

beamVars == <<row, current_beams, splits>>
pathVars == <<cp_stack, memo, body_runs, cp_ret>>
day7Vars == <<grid, beamVars, pathVars>>
ioVars == <<argc, file_ok, exit_code, out, err>>
solverVars == <<max_presses, q, min_cost, visited, best_cost, result>>
mainVars == <<machines, mi, total, machine_count>>
day10Vars == <<solverVars, mainVars>>
readVars == <<line, lines_read>>
edgeVars == <<v_edges, h_edges>>
pairVars == <<pi, pj, max_area>>
day9Vars == <<points, readVars, edgeVars, pairVars>>
vars == <<prog, pc, day7Vars, ioVars, day10Vars, day9Vars>>

(***************************************************************************)
(* Bounds of the model.                                                    *)
(***************************************************************************)
D7Rows == 4
D7Cols == 3
D7MaxSplitters == 4
MaxButtons == 3
MaxTarget == 2
MaxCap == 2
MaxLineLen == 4
MaxLines == 3
D9Max == 2
MaxExtra == 1
MaxMachines == 3

Max(a, b) == IF a >= b THEN a ELSE b
Min(a, b) == IF a <= b THEN a ELSE b
Abs(a) == IF a >= 0 THEN a ELSE 0 - a

(***************************************************************************)
(* Day 7.  A grid is its size, the column of 'S' in row 0 and the set of   *)
(* splitter cells <<r, c>>; rows and columns count from 0 as in the code.  *)
(***************************************************************************)
NoGrid == [rows |-> 0, cols |-> 0, start |-> 0, splitters |-> {}]

Cell(g, r, c) ==
    IF <<r, c>> \in g.splitters THEN "^"
    ELSE IF r = 0 /\ c = g.start THEN "S"
    ELSE "."

ExampleSplitters ==
    {<<2, 7>>} \cup
    {<<4, c>> : c \in {6, 8}} \cup
    {<<6, c>> : c \in {5, 7, 9}} \cup
    {<<8, c>> : c \in {4, 6, 10}} \cup
    {<<10, c>> : c \in {3, 5, 9, 11}} \cup
    {<<12, c>> : c \in {2, 6, 12}} \cup
    {<<14, c>> : c \in {1, 3, 5, 7, 9, 13}}

ExampleGrid == [rows |-> 16, cols |-> 15, start |-> 7, splitters |-> ExampleSplitters]

\* Puzzle-format grids of the bounded size: one 'S' in row 0, splitters in
\* the rows below it, every other cell '.'.
SmallGrids ==
    { [rows |-> D7Rows, cols |-> D7Cols, start |-> s, splitters |-> sp] :
        s \in 0..(D7Cols - 1),
        sp \in { x \in SUBSET ((1..(D7Rows - 1)) \X (0..(D7Cols - 1))) :
                    Cardinality(x) <= D7MaxSplitters } }

\* Faulty variants of BeamsAfter: the right-hand beam is forgotten; a beam
\* on a splitter also goes straight on.
BeamsAfterNoRight(g, r, c) ==
    IF Cell(g, r, c) = "^"
    THEN {x \in {c - 1} : x >= 0 /\ x < g.cols}
    ELSE IF Cell(g, r, c) = "." THEN {c}
    ELSE {}

BeamsAfterThrough(g, r, c) ==
    IF Cell(g, r, c) = "^"
    THEN {x \in {c - 1, c, c + 1} : x >= 0 /\ x < g.cols}
    ELSE IF Cell(g, r, c) = "." THEN {c}
    ELSE {}

\* The columns a beam in column c of row r contributes to next_beams.
BeamsAfter(g, r, c) ==
    IF Cell(g, r, c) = "^"
    THEN {x \in {c - 1, c + 1} : x >= 0 /\ x < g.cols}
    ELSE IF Cell(g, r, c) = "." THEN {c}
    ELSE {}

\* One iteration of "for r in range(1, rows)": the whole inner loop over
\* current_beams, then current_beams = next_beams.
BeamRow ==
    /\ prog = "day7" /\ pc = "rows"
    /\ row < grid.rows
    /\ splits' = splits + Cardinality({c \in current_beams : Cell(grid, row, c) = "^"})
    /\ current_beams' = UNION {BeamsAfter(grid, row, c) : c \in current_beams}
    /\ row' = row + 1
    /\ UNCHANGED <<prog, pc, grid, pathVars, ioVars, day10Vars, day9Vars>>

BeamDone ==
    /\ prog = "day7" /\ pc = "rows"
    /\ row >= grid.rows
    /\ pc' = "done"
    /\ UNCHANGED <<prog, grid, beamVars, pathVars, ioVars, day10Vars, day9Vars>>

IdleBeam == row = 0 /\ current_beams = {} /\ splits = 0
IdlePaths == cp_stack = <<>> /\ memo = <<>> /\ body_runs = <<>> /\ cp_ret = 0
IdleIo == argc = 1 /\ file_ok = TRUE /\ exit_code = -1 /\ out = <<>> /\ err = <<>>
IdleSolver ==
    max_presses = 0 /\ q = <<>> /\ min_cost = <<>> /\ visited = {} /\ best_cost = 0 /\ result = 0
IdleDay10 == IdleSolver /\ machines = <<>> /\ mi = 0 /\ total = 0 /\ machine_count = 0
IdleRead == line = <<>> /\ lines_read = 0
IdlePairs == v_edges = <<>> /\ h_edges = <<>> /\ pi = 0 /\ pj = 0 /\ max_area = 0
IdleDay9 == points = <<>> /\ IdleRead /\ IdlePairs

InitBeam ==
    /\ prog = "day7" /\ pc = "rows"
    /\ grid \in SmallGrids \cup {ExampleGrid}
    /\ row = 1
    /\ current_beams = {grid.start}
    /\ splits = 0
    /\ IdlePaths /\ IdleIo /\ IdleDay10 /\ IdleDay9

NextBeam == BeamRow \/ BeamDone

SpecBeam == InitBeam /\ [][NextBeam]_vars

(***************************************************************************)
(* Day 7 part 2: count_paths(r, c) with its memo dictionary, run as a      *)
(* stack machine.  A frame is a call: its arguments, where it stands       *)
(* ("enter": the call has just been made; "left", "right", "down": it      *)
(* waits for that recursive call to return) and the value of the left      *)
(* call once it has returned.  memo is a function on the positions stored. *)
(***************************************************************************)
InGrid(g, r, c) == ~(r >= g.rows \/ c < 0 \/ c >= g.cols)

\* Faulty variant of MemoKey: the memo is keyed by the column alone.
MemoKeyColumn(r, c) == <<0, c>>

MemoKey(r, c) == <<r, c>>

\* Faulty variant of Combine: a splitter takes the right-hand count alone.
CombineRightOnly(at, left, ret) == ret

\* res of the body, once its last recursive call has returned ret.
Combine(at, left, ret) == IF at = "right" THEN left + ret ELSE ret

Frame(r, c) == [r |-> r, c |-> c, at |-> "enter", left |-> 0]

Pop(st) == SubSeq(st, 1, Len(st) - 1)
Top(st) == st[Len(st)]
SetTop(st, f) == [st EXCEPT ![Len(st)] = f]

MemoPut(m, k, v) == [x \in DOMAIN m \cup {k} |-> IF x = k THEN v ELSE m[x]]
Bump(f, k) == [x \in DOMAIN f \cup {k} |-> IF x = k /\ k \in DOMAIN f THEN f[k] + 1
                                            ELSE IF x = k THEN 1 ELSE f[x]]

\* A call begins: the exit test, the memo lookup, then the body up to its
\* first recursive call.
CpEnter ==
    /\ prog = "day7p2" /\ pc = "call"
    /\ cp_stack # <<>>
    /\ Top(cp_stack).at = "enter"
    /\ LET f == Top(cp_stack)
           k == MemoKey(f.r, f.c)
       IN  IF ~InGrid(grid, f.r, f.c)
           THEN /\ cp_ret' = 1
                /\ cp_stack' = Pop(cp_stack)
                /\ UNCHANGED <<memo, body_runs>>
           ELSE IF k \in DOMAIN memo
           THEN /\ cp_ret' = memo[k]
                /\ cp_stack' = Pop(cp_stack)
                /\ UNCHANGED <<memo, body_runs>>
           ELSE /\ body_runs' = Bump(body_runs, <<f.r, f.c>>)
                /\ IF Cell(grid, f.r, f.c) = "^"
                   THEN cp_stack' = Append(SetTop(cp_stack, [f EXCEPT !.at = "left"]),
                                           Frame(f.r + 1, f.c - 1))
                   ELSE cp_stack' = Append(SetTop(cp_stack, [f EXCEPT !.at = "down"]),
                                           Frame(f.r + 1, f.c))
                /\ UNCHANGED <<memo, cp_ret>>
    /\ UNCHANGED <<prog, pc, grid, beamVars, ioVars, day10Vars, day9Vars>>

\* A recursive call has returned cp_ret to the frame on top.
CpReturn ==
    /\ prog = "day7p2" /\ pc = "call"
    /\ cp_stack # <<>>
    /\ Top(cp_stack).at # "enter"
    /\ LET f == Top(cp_stack)
       IN  IF f.at = "left"
           THEN /\ cp_stack' = Append(SetTop(cp_stack, [f EXCEPT !.at = "right", !.left = cp_ret]),
                                      Frame(f.r + 1, f.c + 1))
                /\ UNCHANGED <<memo, cp_ret>>
           ELSE LET res == Combine(f.at, f.left, cp_ret)
                IN  /\ memo' = MemoPut(memo, MemoKey(f.r, f.c), res)
                    /\ cp_ret' = res
                    /\ cp_stack' = Pop(cp_stack)
    /\ UNCHANGED <<prog, pc, grid, beamVars, body_runs, ioVars, day10Vars, day9Vars>>

\* The top-level call has returned.
CpDone ==
    /\ prog = "day7p2" /\ pc = "call"
    /\ cp_stack = <<>>
    /\ pc' = "done"
    /\ UNCHANGED <<prog, grid, beamVars, pathVars, ioVars, day10Vars, day9Vars>>

InitPaths ==
    /\ prog = "day7p2" /\ pc = "call"
    /\ grid \in SmallGrids \cup {ExampleGrid}
    /\ cp_stack = <<Frame(0, grid.start)>>
    /\ memo = <<>> /\ body_runs = <<>> /\ cp_ret = 0
    /\ IdleBeam /\ IdleIo /\ IdleDay10 /\ IdleDay9

NextPaths == CpEnter \/ CpReturn \/ CpDone

SpecPaths == InitPaths /\ [][NextPaths]_vars

(***************************************************************************)
(* Day 10 part 2: the counter solvers.  A machine is its buttons (each a   *)
(* sequence of counter indices, counted from 0 as in the input) and its    *)
(* targets.  A counter vector is a sequence; counter i is element i + 1.   *)
(***************************************************************************)
IntMax == 2147483647
DijkstraDefaultCap == 100
BoundedDefaultCap == 50

Machine(b, t) == [buttons |-> b, targets |-> t]

ExampleMachines ==
    << Machine(<< <<3>>, <<1, 3>>, <<2>>, <<2, 3>>, <<0, 2>>, <<0, 1>> >>,
               <<3, 5, 4, 7>>),
       Machine(<< <<0, 2, 3, 4>>, <<2, 3>>, <<0, 4>>, <<0, 1, 2>>, <<1, 2, 3, 4>> >>,
               <<7, 5, 12, 7, 2>>),
       Machine(<< <<0, 1, 2, 3, 4>>, <<0, 3, 4>>, <<0, 1, 2, 4, 5>>, <<1, 2>> >>,
               <<10, 11, 11, 5, 10, 5>>) >>

Zeros(n) == [i \in 1..n |-> 0]

\* m[k] = v of std::map / unordered_map: the entry of k is set or added.
MapPut(m, k, v) == (k :> v) @@ m

\* Faulty variant of RemoveAt: the entry stays in the queue.
RemoveAtKeeps(sq, i) == sq

RemoveAt(sq, i) == SubSeq(sq, 1, i - 1) \o SubSeq(sq, i + 1, Len(sq))

\* std::vector<int> operator< : lexicographic, a proper prefix is smaller.
RECURSIVE LexLessFrom(_, _, _)
LexLessFrom(a, b, k) ==
    IF k > Len(b) THEN FALSE
    ELSE IF k > Len(a) THEN TRUE
    ELSE IF a[k] < b[k] THEN TRUE
    ELSE IF b[k] < a[k] THEN FALSE
    ELSE LexLessFrom(a, b, k + 1)

LexLess(a, b) == LexLessFrom(a, b, 1)

\* operator< of tuple<int, State, vector<int>>.
EntryLess(e, f) ==
    \/ e.cost < f.cost
    \/ /\ e.cost = f.cost
       /\ \/ LexLess(e.state, f.state)
          \/ e.state = f.state /\ LexLess(e.presses, f.presses)

\* The entry priority_queue<..., greater<>>::top() returns: a least one.
PqTopIndex(pq) ==
    CHOOSE i \in 1..Len(pq) : \A j \in 1..Len(pq) : ~EntryLess(pq[j], pq[i])

\* Faulty variant of CapReached: one press too many is let through.
CapReachedLate(count, limit) == count > limit

CapReached(count, limit) == count >= limit

\* Faulty variant of ApplyButton: a counter that reaches its target is
\* pruned as if it had exceeded it.
RECURSIVE ApplyButtonTight(_, _, _, _)
ApplyButtonTight(state, btn, k, targets) ==
    IF k > Len(btn) THEN [valid |-> TRUE, state |-> state]
    ELSE IF btn[k] < Len(targets)
    THEN LET new_state == [state EXCEPT ![btn[k] + 1] = @ + 1]
         IN  IF new_state[btn[k] + 1] >= targets[btn[k] + 1]
             THEN [valid |-> FALSE, state |-> new_state]
             ELSE ApplyButtonTight(new_state, btn, k + 1, targets)
    ELSE ApplyButtonTight(state, btn, k + 1, targets)

\* "Apply button press" of the part 2 solvers, from position k of the
\* button: indices >= n are skipped, the loop breaks once a counter exceeds
\* its target.
RECURSIVE ApplyButton(_, _, _, _)
ApplyButton(state, btn, k, targets) ==
    IF k > Len(btn) THEN [valid |-> TRUE, state |-> state]
    ELSE IF btn[k] < Len(targets)
    THEN LET new_state == [state EXCEPT ![btn[k] + 1] = @ + 1]
         IN  IF new_state[btn[k] + 1] > targets[btn[k] + 1]
             THEN [valid |-> FALSE, state |-> new_state]
             ELSE ApplyButton(new_state, btn, k + 1, targets)
    ELSE ApplyButton(state, btn, k + 1, targets)

Entry(cost, state, presses) == [cost |-> cost, state |-> state, presses |-> presses]

\* solve_machine_part2_dijkstra: "Try pressing each button", from button b.
\* acc carries pq and min_cost through the loop.
RECURSIVE DijkstraButtons(_, _, _, _, _)
DijkstraButtons(mach, limit, e, b, acc) ==
    IF b > Len(mach.buttons) THEN acc
    ELSE IF CapReached(e.presses[b], limit) THEN DijkstraButtons(mach, limit, e, b + 1, acc)
    ELSE LET a == ApplyButton(e.state, mach.buttons[b], 1, mach.targets)
             new_cost == e.cost + 1
         IN  IF ~a.valid THEN DijkstraButtons(mach, limit, e, b + 1, acc)
             ELSE IF a.state \notin DOMAIN acc.min_cost \/ new_cost < acc.min_cost[a.state]
             THEN DijkstraButtons(mach, limit, e, b + 1,
                     [pq |-> Append(acc.pq, Entry(new_cost, a.state,
                                                  [e.presses EXCEPT ![b] = @ + 1])),
                      min_cost |-> MapPut(acc.min_cost, a.state, new_cost)])
             ELSE DijkstraButtons(mach, limit, e, b + 1, acc)

\* solve_machine_part2_bounded: "Try pressing each button", from button b.
\* acc carries q and visited through the loop.
RECURSIVE BoundedButtons(_, _, _, _, _)
BoundedButtons(mach, limit, e, b, acc) ==
    IF b > Len(mach.buttons) THEN acc
    ELSE IF CapReached(e.presses[b], limit) THEN BoundedButtons(mach, limit, e, b + 1, acc)
    ELSE LET a == ApplyButton(e.state, mach.buttons[b], 1, mach.targets)
         IN  IF ~a.valid THEN BoundedButtons(mach, limit, e, b + 1, acc)
             ELSE IF a.state \notin acc.visited
             THEN BoundedButtons(mach, limit, e, b + 1,
                     [q |-> Append(acc.q, Entry(e.cost + 1, a.state,
                                                [e.presses EXCEPT ![b] = @ + 1])),
                      visited |-> acc.visited \cup {a.state}])
             ELSE BoundedButtons(mach, limit, e, b + 1, acc)

\* minPresses: "for (int idx : btn) next[idx]++", from position k.  The
\* index is not checked against the vector's size.
RECURSIVE PressUnchecked(_, _, _)
PressUnchecked(state, btn, k) ==
    IF k > Len(btn) THEN state
    ELSE PressUnchecked([state EXCEPT ![btn[k] + 1] = @ + 1], btn, k + 1)

IndicesInRange(mach) ==
    \A b \in 1..Len(mach.buttons) : \A k \in 1..Len(mach.buttons[b]) :
        mach.buttons[b][k] >= 0 /\ mach.buttons[b][k] < Len(mach.targets)

\* minPresses: "for (auto &btn : m.buttons)", from button b.
RECURSIVE MinPressesButtons(_, _, _, _)
MinPressesButtons(mach, e, b, acc) ==
    IF b > Len(mach.buttons) THEN acc
    ELSE LET next == PressUnchecked(e.state, mach.buttons[b], 1)
         IN  IF next \notin DOMAIN acc.dist \/ acc.dist[next] > e.cost + 1
             THEN MinPressesButtons(mach, e, b + 1,
                     [q |-> Append(acc.q, Entry(e.cost + 1, next, <<>>)),
                      dist |-> MapPut(acc.dist, next, e.cost + 1)])
             ELSE MinPressesButtons(mach, e, b + 1, acc)

CurrentMachine == machines[mi]

\* One evaluation of "while (!pq.empty())" and one iteration of the loop.
DijkstraStep ==
    /\ prog = "dijkstra" /\ pc = "solve"
    /\ IF q = <<>>
       THEN /\ result' = -1 /\ pc' = "solved"
            /\ UNCHANGED <<q, min_cost>>
       ELSE LET i == PqTopIndex(q)
                e == q[i]
                rest == RemoveAt(q, i)
                known == IF e.state \in DOMAIN min_cost THEN min_cost
                         ELSE MapPut(min_cost, e.state, 0)
            IN  IF e.cost > known[e.state]
                THEN /\ q' = rest /\ min_cost' = known
                     /\ UNCHANGED <<result, pc>>
                ELSE IF e.state = CurrentMachine.targets
                THEN /\ result' = e.cost /\ pc' = "solved"
                     /\ q' = rest /\ min_cost' = known
                ELSE LET acc == DijkstraButtons(CurrentMachine, max_presses, e, 1,
                                                [pq |-> rest, min_cost |-> known])
                     IN  /\ q' = acc.pq /\ min_cost' = acc.min_cost
                         /\ UNCHANGED <<result, pc>>
    /\ UNCHANGED <<prog, day7Vars, ioVars, mainVars, max_presses, visited, best_cost, day9Vars>>

\* One evaluation of "while (!q.empty())" and one iteration of the loop.
BoundedStep ==
    /\ prog = "bounded" /\ pc = "solve"
    /\ IF q = <<>>
       THEN /\ result' = (IF best_cost # IntMax THEN best_cost ELSE -1)
            /\ pc' = "solved"
            /\ UNCHANGED <<q, visited, best_cost>>
       ELSE LET e == Head(q)
                rest == Tail(q)
            IN  IF e.state = CurrentMachine.targets
                THEN /\ best_cost' = Min(best_cost, e.cost)
                     /\ q' = rest
                     /\ UNCHANGED <<visited, result, pc>>
                ELSE IF e.cost >= best_cost
                THEN /\ q' = rest
                     /\ UNCHANGED <<visited, best_cost, result, pc>>
                ELSE LET acc == BoundedButtons(CurrentMachine, max_presses, e, 1,
                                               [q |-> rest, visited |-> visited])
                     IN  /\ q' = acc.q /\ visited' = acc.visited
                         /\ UNCHANGED <<best_cost, result, pc>>
    /\ UNCHANGED <<prog, day7Vars, ioVars, mainVars, max_presses, min_cost, day9Vars>>

\* One evaluation of "while (!q.empty())" and one iteration of the loop.
\* An index outside the vector makes "next[idx]++" undefined: the run
\* leaves the model at pc = "undefined".
MinPressesStep ==
    /\ prog = "minpresses" /\ pc = "solve"
    /\ IF q = <<>>
       THEN /\ result' = -1 /\ pc' = "solved"
            /\ UNCHANGED <<q, min_cost>>
       ELSE LET e == Head(q)
                rest == Tail(q)
            IN  IF e.state = CurrentMachine.targets
                THEN /\ result' = e.cost /\ pc' = "solved"
                     /\ q' = rest
                     /\ UNCHANGED min_cost
                ELSE IF ~IndicesInRange(CurrentMachine)
                THEN /\ pc' = "undefined"
                     /\ UNCHANGED <<q, min_cost, result>>
                ELSE LET acc == MinPressesButtons(CurrentMachine, e, 1,
                                                  [q |-> rest, dist |-> min_cost])
                     IN  /\ q' = acc.q /\ min_cost' = acc.dist
                         /\ UNCHANGED <<result, pc>>
    /\ UNCHANGED <<prog, day7Vars, ioVars, mainVars, max_presses, visited, best_cost, day9Vars>>

Day10Programs == {"dijkstra", "bounded", "minpresses"}

OpenFailsNever(ok) == FALSE

\* "if (!infile)", "if (!file.is_open())".
OpenFails(ok) == ~ok

\* main up to the line loop: the usage test (minPresses' main only) and the
\* opening of the input file.
M10Open ==
    /\ prog \in Day10Programs /\ pc = "open"
    /\ IF prog = "minpresses" /\ argc < 2
       THEN /\ err' = Append(err, <<"usage">>)
            /\ exit_code' = 1 /\ pc' = "done"
            /\ UNCHANGED mi
       ELSE IF OpenFails(file_ok)
       THEN /\ err' = Append(err, <<"cannot open">>)
            /\ exit_code' = 1 /\ pc' = "done"
            /\ UNCHANGED mi
       ELSE /\ pc' = "loop" /\ mi' = 1
            /\ UNCHANGED <<err, exit_code>>
    /\ UNCHANGED <<prog, day7Vars, argc, file_ok, out, solverVars, machines, total, machine_count, day9Vars>>

\* The head of the loop over the machines: the solver is called for the
\* next machine, or the totals are printed and main returns 0.
M10Line ==
    /\ prog \in Day10Programs /\ pc = "loop"
    /\ IF mi > Len(machines)
       THEN /\ out' = (IF prog = "minpresses"
                       THEN Append(out, <<"total", total>>)
                       ELSE out \o << <<"total", total>>, <<"processed", machine_count>> >>)
            /\ exit_code' = 0 /\ pc' = "done"
            /\ UNCHANGED <<q, min_cost, visited, best_cost>>
       ELSE LET n == Len(CurrentMachine.targets)
                m == Len(CurrentMachine.buttons)
            IN  /\ q' = <<Entry(0, Zeros(n), IF prog = "minpresses" THEN <<>> ELSE Zeros(m))>>
                /\ min_cost' = (IF prog = "bounded" THEN <<>>
                                ELSE MapPut(<<>>, Zeros(n), 0))
                /\ visited' = (IF prog = "bounded" THEN {Zeros(n)} ELSE {})
                /\ best_cost' = IntMax
                /\ pc' = "solve"
                /\ UNCHANGED <<out, exit_code>>
    /\ UNCHANGED <<prog, day7Vars, argc, file_ok, err, max_presses, result, mainVars, day9Vars>>

\* Faulty variant of M10Account: a result of -1 is added and counted like
\* any other.
M10AccountAddsAll ==
    /\ prog \in Day10Programs /\ pc = "solved"
    /\ total' = total + result
    /\ machine_count' = (IF prog = "minpresses" THEN machine_count ELSE machine_count + 1)
    /\ out' = (IF prog = "minpresses" THEN out
               ELSE Append(out, <<"presses", Len(CurrentMachine.targets),
                                 Len(CurrentMachine.buttons), result>>))
    /\ mi' = mi + 1
    /\ pc' = "loop"
    /\ UNCHANGED <<prog, day7Vars, argc, file_ok, exit_code, err, solverVars, machines, day9Vars>>

\* What main does with the solver's result.
M10Account ==
    /\ prog \in Day10Programs /\ pc = "solved"
    /\ LET n == Len(CurrentMachine.targets)
           m == Len(CurrentMachine.buttons)
       IN  IF result = -1
           THEN /\ out' = Append(out, IF prog = "minpresses" THEN <<"unreachable">>
                                      ELSE <<"no solution", n, m>>)
                /\ UNCHANGED <<total, machine_count>>
           ELSE /\ total' = total + result
                /\ out' = (IF prog = "minpresses" THEN out
                           ELSE Append(out, <<"presses", n, m, result>>))
                /\ machine_count' = (IF prog = "minpresses" THEN machine_count
                                     ELSE machine_count + 1)
    /\ mi' = mi + 1
    /\ pc' = "loop"
    /\ UNCHANGED <<prog, day7Vars, argc, file_ok, exit_code, err, solverVars, machines, day9Vars>>

DefaultCap(p) ==
    IF p = "dijkstra" THEN DijkstraDefaultCap
    ELSE IF p = "bounded" THEN BoundedDefaultCap
    ELSE 0

InitDay10(progs, inputs, caps) ==
    /\ prog \in progs /\ pc = "open"
    /\ argc \in (IF prog = "minpresses" THEN {1, 2} ELSE {2})
    /\ file_ok \in BOOLEAN
    /\ exit_code = -1 /\ out = <<>> /\ err = <<>>
    /\ machines \in inputs
    /\ mi = 0 /\ total = 0 /\ machine_count = 0
    /\ max_presses \in (IF caps = {} THEN {DefaultCap(prog)} ELSE caps)
    /\ q = <<>> /\ min_cost = <<>> /\ visited = {} /\ best_cost = 0 /\ result = 0
    /\ grid = NoGrid /\ IdleBeam /\ IdlePaths /\ IdleDay9

NextDay10Dijkstra == M10Open \/ M10Line \/ DijkstraStep \/ M10Account

NextDay10 == M10Open \/ M10Line \/ DijkstraStep \/ BoundedStep \/ MinPressesStep \/ M10Account

\* The three solvers' mains on the example input.
InitCounters == InitDay10(Day10Programs, {ExampleMachines}, {})

SpecCounters == InitCounters /\ [][NextDay10]_vars

\* Bounded machines with two counters.  Index 2 names no counter.
ButtonChoices == {<<0>>, <<1>>, <<0, 1>>, <<1, 2>>}

RECURSIVE SeqsUpTo(_, _)
SeqsUpTo(S, n) ==
    IF n = 0 THEN {<<>>}
    ELSE LET shorter == SeqsUpTo(S, n - 1)
         IN  shorter \cup {Append(sq, x) : sq \in {y \in shorter : Len(y) = n - 1}, x \in S}

SmallMachines ==
    {Machine(b, t) : b \in SeqsUpTo(ButtonChoices, MaxButtons),
                     t \in [1..2 -> 0..MaxTarget]}

\* A machine on which the press counts carried with the first path to a
\* state decide the result.
CapMachine ==
    Machine(<< <<1, 0, 1>>, <<0, 1>>, <<1, 1, 1>>, <<1, 0, 0>>, <<0, 0>>, <<1, 1>> >>,
            <<4, 5>>)

\* solve_machine_part2_dijkstra called through its main, one machine per
\* input, for every max_presses_per_button up to the bound.
InitDijkstra ==
    /\ InitDay10({"dijkstra"}, {<<mach>> : mach \in SmallMachines \cup {CapMachine}}, 1..MaxCap)
    /\ file_ok

SpecDijkstra == InitDijkstra /\ [][NextDay10Dijkstra]_vars

(***************************************************************************)
(* Day 10 part 1 (solution.py), from its description: all lights start     *)
(* off, a button toggles the lights it lists, and a breadth-first search   *)
(* over the light patterns finds the fewest presses.  A pattern is the set *)
(* of lights that are on.                                                  *)
(***************************************************************************)
LightMachine(n, on, b) == [lights |-> n, target |-> on, buttons |-> b]

ExampleLightMachines ==
    << LightMachine(4, {1, 2}, << {3}, {1, 3}, {2}, {2, 3}, {0, 2}, {0, 1} >>),
       LightMachine(5, {3}, << {0, 2, 3, 4}, {2, 3}, {0, 4}, {0, 1, 2}, {1, 2, 3, 4} >>),
       LightMachine(6, {1, 2, 3, 5}, << {0, 1, 2, 3, 4}, {0, 3, 4}, {0, 1, 2, 4, 5}, {1, 2} >>) >>

ExampleLightAnswers == <<2, 3, 2>>

LightButtonChoices == (SUBSET {0, 1, 2}) \ {{}}

SmallLightMachines ==
    {LightMachine(3, on, b) : on \in SUBSET {0, 1, 2},
                              b \in SeqsUpTo(LightButtonChoices, MaxButtons)}

\* Faulty variant of Toggle: a press switches lights on and never off.
ToggleOnOnly(pattern, btn) == pattern \cup btn

Toggle(pattern, btn) == (pattern \ btn) \cup (btn \ pattern)

RECURSIVE LightButtons(_, _, _, _)
LightButtons(mach, e, b, acc) ==
    IF b > Len(mach.buttons) THEN acc
    ELSE LET next == Toggle(e.state, mach.buttons[b])
         IN  IF next \notin acc.visited
             THEN LightButtons(mach, e, b + 1,
                     [q |-> Append(acc.q, Entry(e.cost + 1, next, <<>>)),
                      visited |-> acc.visited \cup {next}])
             ELSE LightButtons(mach, e, b + 1, acc)

\* The next machine is taken up, or the total is printed.
LightsLine ==
    /\ prog = "lights" /\ pc = "loop"
    /\ IF mi > Len(machines)
       THEN /\ out' = Append(out, <<"total", total>>)
            /\ exit_code' = 0 /\ pc' = "done"
            /\ UNCHANGED <<q, visited>>
       ELSE /\ q' = <<Entry(0, {}, <<>>)>>
            /\ visited' = {{}}
            /\ pc' = "solve"
            /\ UNCHANGED <<out, exit_code>>
    /\ UNCHANGED <<prog, day7Vars, argc, file_ok, err, max_presses, min_cost, best_cost,
                   result, mainVars, day9Vars>>

\* One step of the search: a pattern leaves the queue.
LightsStep ==
    /\ prog = "lights" /\ pc = "solve"
    /\ IF q = <<>>
       THEN /\ result' = -1 /\ pc' = "solved"
            /\ UNCHANGED <<q, visited>>
       ELSE LET e == Head(q)
            IN  IF e.state = CurrentMachine.target
                THEN /\ result' = e.cost /\ pc' = "solved"
                     /\ q' = Tail(q)
                     /\ UNCHANGED visited
                ELSE LET acc == LightButtons(CurrentMachine, e, 1,
                                             [q |-> Tail(q), visited |-> visited])
                     IN  /\ q' = acc.q /\ visited' = acc.visited
                         /\ UNCHANGED <<result, pc>>
    /\ UNCHANGED <<prog, day7Vars, ioVars, mainVars, max_presses, min_cost, best_cost, day9Vars>>

LightsAccount ==
    /\ prog = "lights" /\ pc = "solved"
    /\ total' = (IF result = -1 THEN total ELSE total + result)
    /\ mi' = mi + 1
    /\ pc' = "loop"
    /\ UNCHANGED <<prog, day7Vars, ioVars, solverVars, machines, machine_count, day9Vars>>

InitLights ==
    /\ prog = "lights" /\ pc = "loop"
    /\ machines \in {ExampleLightMachines} \cup {<<mach>> : mach \in SmallLightMachines}
    /\ mi = 1 /\ total = 0 /\ machine_count = 0
    /\ IdleSolver /\ IdleIo
    /\ grid = NoGrid /\ IdleBeam /\ IdlePaths /\ IdleDay9

NextLights == LightsLine \/ LightsStep \/ LightsAccount

SpecLights == InitLights /\ [][NextLights]_vars

(***************************************************************************)
(* Day 9 part 1 (the first program of Day9/solution.cpp).  A line is a     *)
(* sequence of characters; the stream extractions of "ss >> x >> comma >>  *)
(* y" are modelled on it: an extraction skips blanks, an int is an         *)
(* optional sign and digits, and once an extraction fails the later ones   *)
(* do nothing.                                                             *)
(***************************************************************************)
Chars == {"1", ",", " ", "-"}
Digits == {"1"}
Lines == SeqsUpTo(Chars, MaxLineLen)

DigitValue(ch) == IF ch = "1" THEN 1 ELSE 0

SetMin(S) == CHOOSE v \in S : \A w \in S : v <= w

\* The first position from k on that holds no blank; Len(s) + 1 if none.
SkipWs(s, k) ==
    LET rest == {i \in k..Len(s) : s[i] # " "}
    IN  IF rest = {} THEN Len(s) + 1 ELSE SetMin(rest)

\* The last position of the run of digits that starts at k; k - 1 if none.
DigitsEnd(s, k) ==
    LET rest == {i \in k..Len(s) : s[i] \notin Digits}
    IN  IF rest = {} THEN Len(s) ELSE SetMin(rest) - 1

RECURSIVE Decimal(_, _, _)
Decimal(s, d, e) == IF e < d THEN 0 ELSE 10 * Decimal(s, d, e - 1) + DigitValue(s[e])

StreamStart == [pos |-> 1, fail |-> FALSE, val |-> 0]

\* operator>>(int&).
ReadInt(s, st) ==
    IF st.fail THEN [st EXCEPT !.val = 0]
    ELSE LET p == SkipWs(s, st.pos)
             negative == p <= Len(s) /\ s[p] = "-"
             d == IF negative THEN p + 1 ELSE p
             e == DigitsEnd(s, d)
             v == Decimal(s, d, e)
         IN  IF e < d \/ v > IntMax
             THEN [pos |-> d, fail |-> TRUE, val |-> 0]
             ELSE [pos |-> e + 1, fail |-> FALSE, val |-> IF negative THEN 0 - v ELSE v]

\* operator>>(char&).
ReadChar(s, st) ==
    IF st.fail THEN st
    ELSE LET p == SkipWs(s, st.pos)
         IN  IF p > Len(s) THEN [st EXCEPT !.pos = p, !.fail = TRUE]
             ELSE [st EXCEPT !.pos = p + 1]

\* Faulty variant of ParseLine: only the first extraction is tested.
ParseLineFirstOnly(s) ==
    LET a == ReadInt(s, StreamStart)
        b == ReadChar(s, a)
        c == ReadInt(s, b)
    IN  [fail |-> a.fail, x |-> a.val, y |-> c.val]

\* "ss >> x >> comma >> y" and ss.fail().
ParseLine(s) ==
    LET a == ReadInt(s, StreamStart)
        b == ReadChar(s, a)
        c == ReadInt(s, b)
    IN  [fail |-> c.fail, x |-> a.val, y |-> c.val]

\* Faulty variant of RectArea: the corner tiles are not counted in.
RectAreaExclusive(p1, p2) == Abs(p1[1] - p2[1]) * Abs(p1[2] - p2[2])

RectArea(p1, p2) == (Abs(p1[1] - p2[1]) + 1) * (Abs(p1[2] - p2[2]) + 1)

\* The two loops over i < j with their running maximum, from pair (i, j) on;
\* i and j count from 1.
RECURSIVE AreaLoops(_, _, _, _)
AreaLoops(pts, i, j, best) ==
    IF i > Len(pts) THEN best
    ELSE IF j > Len(pts) THEN AreaLoops(pts, i + 1, i + 2, best)
    ELSE LET area == RectArea(pts[i], pts[j])
         IN  AreaLoops(pts, i, j + 1, IF area > best THEN area ELSE best)

P1Open ==
    /\ prog = "day9p1" /\ pc = "open"
    /\ IF OpenFails(file_ok)
       THEN /\ err' = Append(err, <<"cannot open">>)
            /\ exit_code' = 1 /\ pc' = "done"
       ELSE /\ pc' = "read"
            /\ UNCHANGED <<err, exit_code>>
    /\ UNCHANGED <<prog, day7Vars, argc, file_ok, out, day10Vars, day9Vars>>

\* getline delivers a line and the loop body runs on it.
P1GetLine ==
    /\ prog = "day9p1" /\ pc = "read"
    /\ lines_read < MaxLines
    /\ \E l \in Lines :
        /\ line' = l
        /\ lines_read' = lines_read + 1
        /\ IF l = <<>>
           THEN UNCHANGED <<points, err>>
           ELSE LET parsed == ParseLine(l)
                IN  IF parsed.fail
                    THEN /\ err' = Append(err, <<"invalid line">>)
                         /\ UNCHANGED points
                    ELSE /\ points' = Append(points, <<parsed.x, parsed.y>>)
                         /\ UNCHANGED err
    /\ UNCHANGED <<prog, pc, day7Vars, argc, file_ok, exit_code, out, day10Vars, edgeVars, pairVars>>

\* getline reaches the end of the file: the area loops run and the result
\* is printed.
P1Finish ==
    /\ prog = "day9p1" /\ pc = "read"
    /\ max_area' = AreaLoops(points, 1, 2, 0)
    /\ out' = Append(out, <<"area", max_area'>>)
    /\ exit_code' = 0 /\ pc' = "done"
    /\ UNCHANGED <<prog, day7Vars, argc, file_ok, err, day10Vars, points, readVars, edgeVars, pi, pj>>

InitDay9P1 ==
    /\ prog = "day9p1" /\ pc = "open"
    /\ argc = 1 /\ file_ok \in BOOLEAN
    /\ exit_code = -1 /\ out = <<>> /\ err = <<>>
    /\ IdleDay9 /\ IdleDay10
    /\ grid = NoGrid /\ IdleBeam /\ IdlePaths

NextDay9P1 == P1Open \/ P1GetLine \/ P1Finish

SpecDay9P1 == InitDay9P1 /\ [][NextDay9P1]_vars

(***************************************************************************)
(* Day 9 part 2: the edge-intersection search of Day9/solution2.cpp and    *)
(* the brute-force search of Day9/test_example.cpp.  One step of the model *)
(* is one iteration of the loops over the pairs (i, j); i and j count      *)
(* from 1.                                                                 *)
(***************************************************************************)
ExamplePolygon ==
    << <<7, 1>>, <<11, 1>>, <<11, 7>>, <<9, 7>>, <<9, 5>>, <<2, 5>>, <<2, 3>>, <<7, 3>> >>

Rectangles ==
    {<< <<x1, y1>>, <<x2, y1>>, <<x2, y2>>, <<x1, y2>> >> :
        <<x1, x2, y1, y2>> \in {t \in (0..D9Max) \X (0..D9Max) \X (0..D9Max) \X (0..D9Max) :
                                   t[1] < t[2] /\ t[3] < t[4]}}

\* A rectangle of width w and height h with a notch cut into its side y = 0,
\* from x = a to x = b, d deep.
NotchedPolygons ==
    {<< <<0, 0>>, <<t[1], 0>>, <<t[1], t[4]>>, <<t[2], t[4]>>, <<t[2], 0>>, <<t[3], 0>>,
        <<t[3], t[5]>>, <<0, t[5]>> >> :
        t \in {u \in (1..(D9Max + 2)) \X (1..(D9Max + 2)) \X (1..(D9Max + 2))
                       \X (1..D9Max) \X (1..D9Max) :
                   u[1] < u[2] /\ u[2] < u[3] /\ u[4] < u[5]}}

PolygonInputs ==
    {ExamplePolygon} \cup Rectangles \cup NotchedPolygons
        \cup {<<>>, << <<0, 0>>, <<1, 0>>, <<1, 1>> >>}

\* The point after points[i], around the polygon.
Succ(i, n) == (i % n) + 1

RECURSIVE BuildV(_, _)
BuildV(pts, i) ==
    IF i > Len(pts) THEN <<>>
    ELSE LET p1 == pts[i]
             p2 == pts[Succ(i, Len(pts))]
         IN  (IF p1[1] = p2[1]
              THEN <<[x |-> p1[1], y_min |-> Min(p1[2], p2[2]), y_max |-> Max(p1[2], p2[2])]>>
              ELSE <<>>) \o BuildV(pts, i + 1)

RECURSIVE BuildH(_, _)
BuildH(pts, i) ==
    IF i > Len(pts) THEN <<>>
    ELSE LET p1 == pts[i]
             p2 == pts[Succ(i, Len(pts))]
         IN  (IF p1[1] # p2[1] /\ p1[2] = p2[2]
              THEN <<[y |-> p1[2], x_min |-> Min(p1[1], p2[1]), x_max |-> Max(p1[1], p2[1])]>>
              ELSE <<>>) \o BuildH(pts, i + 1)

\* What std::sort may leave: the edges in any order that is sorted by the
\* key (the order of edges with equal keys is unspecified).
SortedV(es) ==
    IF es = <<>> THEN {<<>>}
    ELSE {[k \in 1..Len(es) |-> es[f[k]]] :
            f \in {g \in Permutations(1..Len(es)) :
                     \A a, b \in 1..Len(es) : a < b => ~(es[g[b]].x < es[g[a]].x)}}

SortedH(es) ==
    IF es = <<>> THEN {<<>>}
    ELSE {[k \in 1..Len(es) |-> es[f[k]]] :
            f \in {g \in Permutations(1..Len(es)) :
                     \A a, b \in 1..Len(es) : a < b => ~(es[g[b]].y < es[g[a]].y)}}

\* upper_bound: the first edge whose key is greater than val.
UpperBoundV(ve, val) ==
    LET after == {k \in 1..Len(ve) : val < ve[k].x}
    IN  IF after = {} THEN Len(ve) + 1 ELSE SetMin(after)

UpperBoundH(he, val) ==
    LET after == {k \in 1..Len(he) : val < he[k].y}
    IN  IF after = {} THEN Len(he) + 1 ELSE SetMin(after)

\* lower_bound: the first edge whose key is not less than val.
LowerBoundV(ve, val) ==
    LET after == {k \in 1..Len(ve) : ~(ve[k].x < val)}
    IN  IF after = {} THEN Len(ve) + 1 ELSE SetMin(after)

\* Faulty variant of VCuts: an edge that only touches the range counts.
VCutsTouching(e, bottom, top) == e.y_min <= top /\ e.y_max >= bottom

VCuts(e, bottom, top) == e.y_min < top /\ e.y_max > bottom

HCuts(e, left, right) == e.x_min < right /\ e.x_max > left

\* Check A: the loop from upper_bound(left) that ends at the first edge at
\* or beyond right, or at the first edge that cuts the rectangle.
VBlocked(ve, left, right, bottom, top) ==
    \E k \in UpperBoundV(ve, left)..Len(ve) :
        /\ \A m \in UpperBoundV(ve, left)..k : ve[m].x < right
        /\ VCuts(ve[k], bottom, top)

\* Check B.
HBlocked(he, left, right, bottom, top) ==
    \E k \in UpperBoundH(he, bottom)..Len(he) :
        /\ \A m \in UpperBoundH(he, bottom)..k : he[m].y < top
        /\ HCuts(he[k], left, right)

\* Check C: the vertical edges at or right of right that cover the slice
\* from bottom to bottom + 1.
Intersections(ve, right, bottom) ==
    Cardinality({k \in LowerBoundV(ve, right)..Len(ve) :
                    ve[k].y_min <= bottom /\ ve[k].y_max > bottom})

\* The body of the pair loop of solution2.cpp: the value of max_area after
\* the iteration for (i, j).
P2PairBody(pts, ve, he, i, j, best) ==
    LET area == RectArea(pts[i], pts[j])
        left == Min(pts[i][1], pts[j][1])
        right == Max(pts[i][1], pts[j][1])
        bottom == Min(pts[i][2], pts[j][2])
        top == Max(pts[i][2], pts[j][2])
    IN  IF area <= best THEN best
        ELSE IF VBlocked(ve, left, right, bottom, top) THEN best
        ELSE IF HBlocked(he, left, right, bottom, top) THEN best
        ELSE IF Intersections(ve, right, bottom) % 2 # 0 THEN area
        ELSE best

\* The pair the loops take after (i, j); the loops have ended when its
\* second component exceeds n.
NextPair(i, j, n) == IF j < n THEN <<i, j + 1>> ELSE <<i + 1, i + 2>>

\* parseInput: exit(1) when the file does not open, else the points read.
P2ParseInput ==
    /\ prog = "day9p2" /\ pc = "open"
    /\ IF OpenFails(file_ok)
       THEN /\ err' = Append(err, <<"cannot open">>)
            /\ exit_code' = 1 /\ pc' = "done"
            /\ UNCHANGED points
       ELSE /\ \E input \in PolygonInputs : points' = input
            /\ pc' = "build"
            /\ UNCHANGED <<err, exit_code>>
    /\ UNCHANGED <<prog, day7Vars, argc, file_ok, out, day10Vars, readVars, edgeVars, pairVars>>

P2BuildEdges ==
    /\ prog = "day9p2" /\ pc = "build"
    /\ IF Len(points) < 4
       THEN /\ out' = Append(out, <<"Not enough points">>)
            /\ exit_code' = 0 /\ pc' = "done"
            /\ UNCHANGED <<edgeVars, pairVars>>
       ELSE /\ v_edges' \in SortedV(BuildV(points, 1))
            /\ h_edges' \in SortedH(BuildH(points, 1))
            /\ max_area' = 0 /\ pi' = 1 /\ pj' = 2
            /\ pc' = "pairs"
            /\ UNCHANGED <<out, exit_code>>
    /\ UNCHANGED <<prog, day7Vars, argc, file_ok, err, day10Vars, points, readVars>>

P2Pair ==
    /\ prog = "day9p2" /\ pc = "pairs"
    /\ pj <= Len(points)
    /\ max_area' = P2PairBody(points, v_edges, h_edges, pi, pj, max_area)
    /\ pi' = NextPair(pi, pj, Len(points))[1]
    /\ pj' = NextPair(pi, pj, Len(points))[2]
    /\ UNCHANGED <<prog, pc, day7Vars, ioVars, day10Vars, points, readVars, edgeVars>>

P2Print ==
    /\ prog = "day9p2" /\ pc = "pairs"
    /\ pj > Len(points)
    /\ out' = Append(out, <<"Part 2 Largest Area", max_area>>)
    /\ exit_code' = 0 /\ pc' = "done"
    /\ UNCHANGED <<prog, day7Vars, argc, file_ok, err, day10Vars, day9Vars>>

isOnBoundary(testx, testy, reds) ==
    \E i \in 1..Len(reds) :
        LET x1 == reds[i][1]
            y1 == reds[i][2]
            x2 == reds[Succ(i, Len(reds))][1]
            y2 == reds[Succ(i, Len(reds))][2]
        IN  IF x1 = x2
            THEN testx = x1 /\ testy >= Min(y1, y2) /\ testy <= Max(y1, y2)
            ELSE y1 = y2 /\ testy = y1 /\ testx >= Min(x1, x2) /\ testx <= Max(x1, x2)

\* x1 + (x2 - x1) * (testy - y1) / (y2 - y1) > testx, compared without the
\* division (y2 # y1 where it is used).
IntersectRightOf(x1, y1, x2, y2, testx, testy) ==
    IF y2 > y1
    THEN (x2 - x1) * (testy - y1) > (testx - x1) * (y2 - y1)
    ELSE (x2 - x1) * (testy - y1) < (testx - x1) * (y2 - y1)

isInsidePolygon(testx, testy, reds) ==
    LET winding ==
            Cardinality({i \in 1..Len(reds) :
                LET x1 == reds[i][1]
                    y1 == reds[i][2]
                    x2 == reds[Succ(i, Len(reds))][1]
                    y2 == reds[Succ(i, Len(reds))][2]
                IN  /\ (y1 <= testy /\ y2 > testy) \/ (y1 > testy /\ y2 <= testy)
                    /\ IntersectRightOf(x1, y1, x2, y2, testx, testy)})
    IN  winding % 2 = 1

isValidTile(x, y, reds) ==
    \/ \E k \in 1..Len(reds) : reds[k] = <<x, y>>
    \/ isOnBoundary(x, y, reds)
    \/ isInsidePolygon(x, y, reds)

isRectangleValid(x1, y1, x2, y2, reds) ==
    /\ \A x \in x1..x2 : isValidTile(x, y1, reds)
    /\ \A x \in x1..x2 : isValidTile(x, y2, reds)
    /\ \A y \in (y1 + 1)..(y2 - 1) : isValidTile(x1, y, reds)
    /\ \A y \in (y1 + 1)..(y2 - 1) : isValidTile(x2, y, reds)

\* test_example.cpp, main up to the loops.
TestStart ==
    /\ prog = "day9test" /\ pc = "open"
    /\ points' = ExamplePolygon
    /\ out' = Append(out, <<"Testing example", Len(ExamplePolygon)>>)
    /\ max_area' = 0 /\ pi' = 1 /\ pj' = 2
    /\ pc' = "pairs"
    /\ UNCHANGED <<prog, day7Vars, argc, file_ok, exit_code, err, day10Vars, readVars, edgeVars>>

TestPair ==
    /\ prog = "day9test" /\ pc = "pairs"
    /\ pj <= Len(points)
    /\ LET left == Min(points[pi][1], points[pj][1])
           right == Max(points[pi][1], points[pj][1])
           top == Min(points[pi][2], points[pj][2])
           bottom == Max(points[pi][2], points[pj][2])
           area == (right - left + 1) * (bottom - top + 1)
       IN  IF isRectangleValid(left, top, right, bottom, points) /\ area > max_area
           THEN /\ max_area' = area
                /\ out' = Append(out, <<"Valid rectangle", left, top, right, bottom, area>>)
           ELSE UNCHANGED <<max_area, out>>
    /\ pi' = NextPair(pi, pj, Len(points))[1]
    /\ pj' = NextPair(pi, pj, Len(points))[2]
    /\ UNCHANGED <<prog, pc, day7Vars, argc, file_ok, exit_code, err, day10Vars, points, readVars, edgeVars>>

TestPrint ==
    /\ prog = "day9test" /\ pc = "pairs"
    /\ pj > Len(points)
    /\ out' = Append(out, <<"Max area", max_area>>)
    /\ exit_code' = 0 /\ pc' = "done"
    /\ UNCHANGED <<prog, day7Vars, argc, file_ok, err, day10Vars, day9Vars>>

InitPolygon ==
    /\ prog \in {"day9p2", "day9test"} /\ pc = "open"
    /\ argc = 1 /\ file_ok \in BOOLEAN
    /\ exit_code = -1 /\ out = <<>> /\ err = <<>>
    /\ IdleDay9 /\ IdleDay10
    /\ grid = NoGrid /\ IdleBeam /\ IdlePaths

NextPolygon ==
    P2ParseInput \/ P2BuildEdges \/ P2Pair \/ P2Print \/ TestStart \/ TestPair \/ TestPrint

SpecPolygon == InitPolygon /\ [][NextPolygon]_vars

(***************************************************************************)
(* The programs that read an input file, on small inputs.                  *)
(***************************************************************************)
OpenMachines == {<<Machine(<< <<0>>, <<0, 1>> >>, <<2, 1>>)>>}

InitOpen ==
    \/ InitDay10(Day10Programs, OpenMachines, {})
    \/ InitDay9P1
    \/ (InitPolygon /\ prog = "day9p2")

NextOpen ==
    \/ M10Open \/ M10Line \/ DijkstraStep \/ BoundedStep \/ MinPressesStep \/ M10Account
    \/ P1Open \/ P1GetLine \/ P1Finish
    \/ P2ParseInput \/ P2BuildEdges \/ P2Pair \/ P2Print

SpecOpen == InitOpen /\ [][NextOpen]_vars

(***************************************************************************)
(* Day 9 part 1, what a line that parses is: blanks, an int, blanks, one   *)
(* character that is no blank, blanks, an int, and anything after it.  An  *)
(* int is an optional '-' and the longest run of digits that follows.      *)
(***************************************************************************)
AllBlank(s, a, b) == \A i \in a..b : s[i] = " "

IsIntAt(s, a, b) ==
    /\ a <= b
    /\ LET d == IF s[a] = "-" THEN a + 1 ELSE a
       IN  /\ d <= b
           /\ \A i \in d..b : s[i] \in Digits
           /\ (b = Len(s) \/ s[b + 1] \notin Digits)

IntAt(s, a, b) ==
    IF s[a] = "-" THEN 0 - Decimal(s, a + 1, b) ELSE Decimal(s, a, b)

\* <<a, b, c, d, e>>: x is s[a..b], the separator is s[c], y is s[d..e].
Splits(s) ==
    {t \in (1..Len(s)) \X (1..Len(s)) \X (1..Len(s)) \X (1..Len(s)) \X (1..Len(s)) :
        /\ AllBlank(s, 1, t[1] - 1) /\ s[t[1]] # " "
        /\ IsIntAt(s, t[1], t[2])
        /\ t[3] > t[2] /\ AllBlank(s, t[2] + 1, t[3] - 1) /\ s[t[3]] # " "
        /\ t[4] > t[3] /\ AllBlank(s, t[3] + 1, t[4] - 1) /\ s[t[4]] # " "
        /\ IsIntAt(s, t[4], t[5])}

WellFormed(s) ==
    \E a \in 1..Len(s) :
        /\ AllBlank(s, 1, a - 1) /\ s[a] # " "
        /\ \E b \in a..Len(s) :
            /\ IsIntAt(s, a, b)
            /\ \E c \in (b + 1)..Len(s) :
                /\ AllBlank(s, b + 1, c - 1) /\ s[c] # " "
                /\ \E d \in (c + 1)..Len(s) :
                    /\ AllBlank(s, c + 1, d - 1) /\ s[d] # " "
                    /\ \E e \in d..Len(s) : IsIntAt(s, d, e)

PointOf(s) ==
    LET t == CHOOSE u \in Splits(s) : TRUE
    IN  <<IntAt(s, t[1], t[2]), IntAt(s, t[4], t[5])>>

(***************************************************************************)
(* Day 7: the tree/graph traversal (day7_tree.py), from its description:   *)
(* a beam moves down one row at a time; the splitter it moves onto is      *)
(* reached, and beams continue from the cells left and right of it.        *)
(***************************************************************************)
TreeMoves(g, cell) ==
    LET r == cell[1] + 1
        c == cell[2]
    IN  IF r >= g.rows THEN {}
        ELSE IF Cell(g, r, c) = "^"
        THEN {<<r, x>> : x \in {y \in {c - 1, c + 1} : y >= 0 /\ y < g.cols}}
        ELSE {<<r, c>>}

RECURSIVE TreeVisit(_, _, _)
TreeVisit(g, frontier, done) ==
    IF frontier = {} THEN done
    ELSE LET seen == done \cup frontier
         IN  TreeVisit(g, (UNION {TreeMoves(g, cell) : cell \in frontier}) \ seen, seen)

ReachableSplitters(g) ==
    {<<cell[1] + 1, cell[2]>> : cell \in
        {x \in TreeVisit(g, {<<0, g.start>>}, {}) :
            x[1] + 1 < g.rows /\ Cell(g, x[1] + 1, x[2]) = "^"}}

\* count_paths without the memo dictionary.
RECURSIVE CountPathsPlain(_, _, _)
CountPathsPlain(g, r, c) ==
    IF ~InGrid(g, r, c) THEN 1
    ELSE IF Cell(g, r, c) = "^"
    THEN CountPathsPlain(g, r + 1, c - 1) + CountPathsPlain(g, r + 1, c + 1)
    ELSE CountPathsPlain(g, r + 1, c)

(***************************************************************************)
(* Day 10 part 2, what the solvers are to compute: the least sum of a      *)
(* press vector x, 0 <= x[b] <= limit, that brings every counter from 0 to *)
(* its target; -1 when there is none.                                      *)
(***************************************************************************)
Occurrences(btn, idx) == Cardinality({k \in 1..Len(btn) : btn[k] = idx})

RECURSIVE SumTo(_, _)
SumTo(f, n) == IF n = 0 THEN 0 ELSE f[n] + SumTo(f, n - 1)

CounterAfter(mach, x, i) ==
    SumTo([b \in 1..Len(mach.buttons) |-> x[b] * Occurrences(mach.buttons[b], i - 1)],
          Len(mach.buttons))

Solutions(mach, limit) ==
    {x \in [1..Len(mach.buttons) -> 0..limit] :
        \A i \in 1..Len(mach.targets) : CounterAfter(mach, x, i) = mach.targets[i]}

LeastPresses(mach, limit) ==
    LET sums == {SumTo(x, Len(mach.buttons)) : x \in Solutions(mach, limit)}
    IN  IF sums = {} THEN -1 ELSE CHOOSE v \in sums : \A w \in sums : v <= w

ExampleAnswers == <<10, 12, 11>>

\* Day 10 part 1: the fewest buttons whose toggles, each pressed once, turn
\* the dark machine into its target; -1 when no set of buttons does.
RECURSIVE ToggleAll(_, _, _)
ToggleAll(mach, chosen, b) ==
    IF b = 0 THEN {}
    ELSE LET before == ToggleAll(mach, chosen, b - 1)
         IN  IF b \in chosen
             THEN (before \ mach.buttons[b]) \cup (mach.buttons[b] \ before)
             ELSE before

LeastToggles(mach) ==
    LET sizes == {Cardinality(chosen) : chosen \in
                    {c \in SUBSET (1..Len(mach.buttons)) :
                        ToggleAll(mach, c, Len(mach.buttons)) = mach.target}}
    IN  IF sizes = {} THEN -1 ELSE CHOOSE v \in sizes : \A w \in sizes : v <= w

(***************************************************************************)
(* minPresses on machines whose target may be out of reach.  The search    *)
(* has no bound of its own; the model follows it up to MaxExtra levels     *)
(* past the total of the targets.  Every entry pushed has a counter total  *)
(* of at least its cost (a press that changes nothing is never pushed), so *)
(* from that level on no entry in the queue is the target or leads to it.  *)
(***************************************************************************)
TargetTotal(mach) == SumTo(mach.targets, Len(mach.targets))

MinPressesWithin ==
    /\ prog = "minpresses" /\ pc = "solve"
    /\ IF q = <<>> THEN TRUE
       ELSE Head(q).cost <= TargetTotal(CurrentMachine) + MaxExtra
    /\ MinPressesStep

HighestTarget(mach) ==
    IF mach.targets = <<>> THEN 0
    ELSE CHOOSE v \in {mach.targets[i] : i \in 1..Len(mach.targets)} :
            \A i \in 1..Len(mach.targets) : mach.targets[i] <= v

\* No sequence of presses reaches the target: a press adds at least one to
\* a counter it lists, so as many presses of each button as the highest
\* target are enough to try.
Unreachable(mach) == Solutions(mach, HighestTarget(mach)) = {}

NoButtonMachine == Machine(<<>>, <<1, 1>>)

\* While minPresses searches a machine whose target is out of reach and
\* which has a button that lists a counter, its queue is not empty: the
\* loop test "!q.empty()" holds at every level the model follows.
QueueNeverEmpties ==
    (prog = "minpresses" /\ pc = "solve" /\ IndicesInRange(CurrentMachine)
        /\ Unreachable(CurrentMachine)
        /\ \E b \in 1..Len(CurrentMachine.buttons) : CurrentMachine.buttons[b] # <<>>)
    => q # <<>>

UnreachableInputs ==
    {<<mach>> : mach \in SmallMachines} \cup
    {<<NoButtonMachine, mach>> : mach \in {m \in SmallMachines : Len(m.buttons) <= 1}}

InitUnreachable ==
    /\ InitDay10({"minpresses"}, UnreachableInputs, {})
    /\ file_ok /\ argc = 2

NextUnreachable == M10Open \/ M10Line \/ MinPressesWithin \/ M10Account

SpecUnreachable ==
    InitUnreachable /\ [][NextUnreachable]_vars /\ WF_vars(NextUnreachable)

(***************************************************************************)
(* The two capped solvers, each called through its main with a cap, on the *)
(* small machines.                                                         *)
(***************************************************************************)
CappedPrograms == {"dijkstra", "bounded"}

InitCapped ==
    /\ InitDay10(CappedPrograms, {<<mach>> : mach \in SmallMachines \cup {CapMachine}},
                 1..MaxCap)
    /\ file_ok

\* Every counter of the state is between 0 and its target.
WithinTargets(state) ==
    \A i \in 1..Len(CurrentMachine.targets) :
        0 <= state[i] /\ state[i] <= CurrentMachine.targets[i]

NextCapped == M10Open \/ M10Line \/ DijkstraStep \/ BoundedStep \/ M10Account

SpecCapped == InitCapped /\ [][NextCapped]_vars

(***************************************************************************)
(* The three solvers with their default caps (none, 50, 100) on machines   *)
(* whose target can be reached and whose buttons list only counters that   *)
(* exist.                                                                  *)
(***************************************************************************)
\* One button, pressed once more than the cap of the bounded solver allows.
DeepMachine == Machine(<< <<0>> >>, <<BoundedDefaultCap + 1>>)

ReachableMachines ==
    {mach \in SmallMachines : IndicesInRange(mach) /\ ~Unreachable(mach)}

InitDefaults ==
    /\ InitDay10(Day10Programs, {<<mach>> : mach \in ReachableMachines \cup {DeepMachine}}, {})
    /\ file_ok /\ argc = 2

SpecDefaults == InitDefaults /\ [][NextDay10]_vars

(***************************************************************************)
(* The two capped solvers as running programs: a step that can be taken is *)
(* taken.  The inputs add machines with no counters and machines with a    *)
(* button that lists no counter that exists.                               *)
(***************************************************************************)
EdgeMachines ==
    {Machine(<< <<2>> >>, <<1, 1>>),
     Machine(<< <<2>>, <<0, 1>> >>, <<1, 1>>),
     Machine(<< <<2, 3>>, <<0>> >>, <<1, 1>>),
     Machine(<< <<0>> >>, <<>>),
     Machine(<<>>, <<>>)}

InitTerminate ==
    /\ InitDay10(CappedPrograms,
                 {<<mach>> : mach \in SmallMachines \cup EdgeMachines \cup {CapMachine}},
                 1..MaxCap)
    /\ file_ok

SpecTerminate == InitTerminate /\ [][NextCapped]_vars /\ WF_vars(NextCapped)

(***************************************************************************)
(* The three mains on inputs of several machines, some of them with no     *)
(* solution.  minPresses is given only machines on which it returns.       *)
(***************************************************************************)
TwoPressMachine == Machine(<< <<0>>, <<0, 1>> >>, <<2, 1>>)

OnePressMachine == Machine(<< <<0, 1>> >>, <<1, 1>>)

OutOfReachMachine == Machine(<< <<0>> >>, <<0, 1>>)

NonEmptySeqsUpTo(S, n) == SeqsUpTo(S, n) \ {<<>>}

InitTotals ==
    /\ \/ InitDay10(Day10Programs,
                    NonEmptySeqsUpTo({TwoPressMachine, OnePressMachine, NoButtonMachine},
                                     MaxMachines), {})
       \/ InitDay10(CappedPrograms,
                    {sq \in NonEmptySeqsUpTo({TwoPressMachine, OutOfReachMachine}, MaxMachines) :
                        \E k \in 1..Len(sq) : sq[k] = OutOfReachMachine}, {})
    /\ file_ok /\ argc = 2

SpecTotals == InitTotals /\ [][NextDay10]_vars

\* The sum and the number of the results other than -1 of the first k
\* machines, each result being the least number of presses.
RECURSIVE SolvedTotal(_, _)
SolvedTotal(ms, k) ==
    IF k = 0 THEN 0
    ELSE LET res == LeastPresses(ms[k], HighestTarget(ms[k]))
         IN  SolvedTotal(ms, k - 1) + (IF res = -1 THEN 0 ELSE res)

SolvedCount(ms, k) ==
    Cardinality({i \in 1..k : LeastPresses(ms[i], HighestTarget(ms[i])) # -1})

(***************************************************************************)
(* The two searches of Day 9 part 2 on the same polygons: solution2.cpp,   *)
(* and the loops of test_example.cpp with reds set to the polygon instead  *)
(* of the example.                                                         *)
(***************************************************************************)
BruteStart ==
    /\ prog = "day9test" /\ pc = "open"
    /\ \E input \in {pts \in PolygonInputs : Len(pts) >= 4} : points' = input
    /\ out' = Append(out, <<"Testing example", Len(points')>>)
    /\ max_area' = 0 /\ pi' = 1 /\ pj' = 2
    /\ pc' = "pairs"
    /\ UNCHANGED <<prog, day7Vars, argc, file_ok, exit_code, err, day10Vars, readVars, edgeVars>>

InitCompare == InitPolygon /\ file_ok

NextCompare ==
    P2ParseInput \/ P2BuildEdges \/ P2Pair \/ P2Print \/ BruteStart \/ TestPair \/ TestPrint

SpecCompare == InitCompare /\ [][NextCompare]_vars

\* The rectangles the brute-force search accepts, as pairs of points, and
\* the largest area among them.
ValidPairs(pts) ==
    {t \in (1..Len(pts)) \X (1..Len(pts)) :
        /\ t[1] < t[2]
        /\ isRectangleValid(Min(pts[t[1]][1], pts[t[2]][1]), Min(pts[t[1]][2], pts[t[2]][2]),
                            Max(pts[t[1]][1], pts[t[2]][1]), Max(pts[t[1]][2], pts[t[2]][2]),
                            pts)}

SetMax(S) == CHOOSE v \in S : \A w \in S : w <= v

BruteMax(pts) ==
    IF ValidPairs(pts) = {} THEN 0
    ELSE SetMax({RectArea(pts[t[1]], pts[t[2]]) : t \in ValidPairs(pts)})

(***************************************************************************)
(* Day 9 part 1 and part 2, each through its main.                         *)
(***************************************************************************)
InitAreas ==
    /\ InitDay9P1 \/ (InitPolygon /\ prog = "day9p2")
    /\ file_ok

NextAreas ==
    \/ P1Open \/ P1GetLine \/ P1Finish
    \/ P2ParseInput \/ P2BuildEdges \/ P2Pair \/ P2Print

SpecAreas == InitAreas /\ [][NextAreas]_vars

\* The largest (|x_i - x_j| + 1) * (|y_i - y_j| + 1) over the pairs i < j;
\* 0 when there is no pair.
PairMax(pts) ==
    IF Len(pts) < 2 THEN 0
    ELSE SetMax({(Abs(pts[t[1]][1] - pts[t[2]][1]) + 1) * (Abs(pts[t[1]][2] - pts[t[2]][2]) + 1) :
                    t \in {u \in (1..Len(pts)) \X (1..Len(pts)) : u[1] < u[2]}})

(***************************************************************************)
(* Claims.                                                                 *)
(***************************************************************************)

\* C1: the row-by-row simulation of the example grid ends with 21 splits.
C1_ExampleSplits ==
    (prog = "day7" /\ pc = "done" /\ grid = ExampleGrid) => splits = 21

C1_Witness == prog = "day7" /\ pc = "done" /\ grid = ExampleGrid /\ splits = 21

\* C7: on every puzzle-format grid the split count of the row-by-row
\* simulation is the number of distinct splitters the traversal reaches.
C7_SplitsAreReachableSplitters ==
    (prog = "day7" /\ pc = "done") => splits = Cardinality(ReachableSplitters(grid))

\* Two beams have merged into one column and that column holds a splitter:
\* the simulation has ended having counted a splitter two beams reach.
C7_Witness ==
    /\ prog = "day7" /\ pc = "done" /\ grid # ExampleGrid
    /\ {<<1, 1>>, <<2, 0>>, <<2, 2>>, <<3, 1>>} \subseteq grid.splitters
    /\ grid.start = 1
    /\ splits = 4

\* C8: count_paths at 'S' of the example grid returns 40.
C8_ExamplePaths ==
    (prog = "day7p2" /\ pc = "done" /\ grid = ExampleGrid) => cp_ret = 40

C8_Witness == prog = "day7p2" /\ pc = "done" /\ grid = ExampleGrid /\ cp_ret = 40

\* C9: the body of count_paths runs at most once per in-grid position, and
\* the top-level call returns what the recursion without memo returns.
C9_MemoOnceAndSameValue ==
    /\ \A k \in DOMAIN body_runs : body_runs[k] <= 1
    /\ (prog = "day7p2" /\ pc = "done") =>
           cp_ret = CountPathsPlain(grid, 0, grid.start)

\* A call arrives at a position whose result is already in the memo.
C9_Witness ==
    /\ prog = "day7p2" /\ pc = "call" /\ cp_stack # <<>>
    /\ Top(cp_stack).at = "enter"
    /\ InGrid(grid, Top(cp_stack).r, Top(cp_stack).c)
    /\ MemoKey(Top(cp_stack).r, Top(cp_stack).c) \in DOMAIN memo

\* C2: on the three example machines each counter solver returns 10, 12 and
\* 11 presses, and its main prints the total 33.
C2_ExampleCounters ==
    (prog \in Day10Programs /\ machines = ExampleMachines) =>
        /\ pc = "solved" => result = ExampleAnswers[mi]
        /\ (pc = "done" /\ exit_code = 0) =>
               \E k \in 1..Len(out) : out[k] = <<"total", 33>>

C2_Witness ==
    /\ prog = "dijkstra" /\ machines = ExampleMachines
    /\ pc = "done" /\ exit_code = 0
    /\ out[Len(out) - 1] = <<"total", 33>>

\* C3: the fewest presses for the three example light machines are 2, 3 and
\* 2, for a total of 7.
C3_ExampleLights ==
    (prog = "lights" /\ machines = ExampleLightMachines) =>
        /\ pc = "solved" => /\ result = ExampleLightAnswers[mi]
                            /\ result = LeastToggles(CurrentMachine)
        /\ pc = "done" => out = << <<"total", 7>> >>

C3_Witness ==
    /\ prog = "lights" /\ machines = ExampleLightMachines
    /\ pc = "done" /\ out = << <<"total", 7>> >>

\* C4: on the example polygon the brute-force search of test_example.cpp
\* and the edge-intersection search of solution2.cpp both end with the
\* maximum area 24 and print it, and the rectangle that sets it is the one
\* with the corners (2,3) and (9,5).
C4_ExampleArea ==
    (prog \in {"day9p2", "day9test"} /\ points = ExamplePolygon /\ pc = "done") =>
        /\ exit_code = 0
        /\ max_area = 24
        /\ out[Len(out)] = <<(IF prog = "day9p2" THEN "Part 2 Largest Area" ELSE "Max area"), 24>>

C4_ExampleStep ==
    (prog \in {"day9p2", "day9test"} /\ points = ExamplePolygon /\ pc = "pairs") =>
        /\ max_area' <= 24
        /\ (max_area' = 24 /\ max_area # 24) =>
               {points[pi], points[pj]} = {<<2, 3>>, <<9, 5>>}

C4_ExamplePolygonArea == []C4_ExampleArea /\ [][C4_ExampleStep]_vars

C4_Witness ==
    /\ prog = "day9p2" /\ pc = "done" /\ points = ExamplePolygon
    /\ out = << <<"Part 2 Largest Area", 24>> >>

\* C5: a program whose input file cannot be opened reports an error and
\* ends with exit status 1; it reads nothing, computes nothing and prints
\* nothing.
C5_OpenFailure ==
    ~file_ok =>
        /\ pc \in {"open", "done"}
        /\ out = <<>>
        /\ points = <<>> /\ lines_read = 0 /\ max_area = 0
        /\ mi = 0 /\ total = 0 /\ q = <<>>
        /\ pc = "done" => (exit_code = 1 /\ Len(err) = 1)

C5_Witness ==
    /\ ~file_ok /\ pc = "done" /\ prog = "day9p2" /\ exit_code = 1

\* C6: a line getline delivers adds no point and no warning when it is
\* empty, one warning and no point when it does not parse, and exactly its
\* point, after the points of the lines before it, when it does; the area
\* printed is that of the points kept.
C6_LineStep ==
    (prog = "day9p1" /\ lines_read' = lines_read + 1) =>
        IF line' = <<>>
        THEN points' = points /\ err' = err
        ELSE IF WellFormed(line')
        THEN points' = Append(points, PointOf(line')) /\ err' = err
        ELSE points' = points /\ err' = Append(err, <<"invalid line">>)

C6_AreaOfKeptPoints ==
    (prog = "day9p1" /\ pc = "done" /\ exit_code = 0) =>
        /\ out = << <<"area", max_area>> >>
        /\ \A i \in 1..Len(points) : \A j \in 1..Len(points) :
               i # j => RectArea(points[i], points[j]) <= max_area
        /\ Len(points) < 2 => max_area = 0
        /\ Len(points) >= 2 =>
               \E i \in 1..Len(points) : \E j \in 1..Len(points) :
                   i # j /\ RectArea(points[i], points[j]) = max_area

C6_MalformedLinesSkipped == [][C6_LineStep]_vars /\ []C6_AreaOfKeptPoints

\* A malformed line came between two lines that parse.
C6_Witness ==
    /\ prog = "day9p1" /\ pc = "done" /\ exit_code = 0
    /\ Len(points) = 2 /\ points[1] # points[2]
    /\ err # <<>>

\* C10: solve_machine_part2_dijkstra returns the least total number of
\* presses of a press vector within the cap that reaches the targets, and
\* -1 only when there is no such vector.
C10_DijkstraLeastWithinCap ==
    (prog = "dijkstra" /\ pc = "solved") =>
        result = LeastPresses(CurrentMachine, max_presses)

C12_QueuedWithinBounds ==
    (prog \in CappedPrograms /\ pc = "solve") =>
        /\ \A k \in 1..Len(q) :
               /\ WithinTargets(q[k].state)
               /\ \A b \in 1..Len(q[k].presses) :
                      0 <= q[k].presses[b] /\ q[k].presses[b] <= max_presses
               /\ Len(q[k].presses) = Len(CurrentMachine.buttons)
               /\ SumTo(q[k].presses, Len(q[k].presses)) = q[k].cost
        /\ \A state \in DOMAIN min_cost : WithinTargets(state)
        /\ \A state \in visited : WithinTargets(state)

\* An entry that has reached a target counter and used a button up to the cap.
C12_Witness ==
    /\ prog = "bounded" /\ pc = "solve" /\ max_presses = 2
    /\ \E k \in 1..Len(q) :
           /\ q[k].cost >= 3
           /\ \E b \in 1..Len(q[k].presses) : q[k].presses[b] = max_presses
           /\ q[k].state[1] = CurrentMachine.targets[1]
\* C13: on a machine whose target can be reached the three solvers, with
\* their default caps, return the same number: the least number of presses,
\* which is what the unbounded search of minPresses returns.
C13_SameResult ==
    (prog \in Day10Programs /\ pc = "solved") =>
        result = LeastPresses(CurrentMachine, HighestTarget(CurrentMachine))
\* C14: each call of a capped solver returns: the loop that has started on a
\* machine ends, whether or not the target can be reached, and main ends.
C14_SolversTerminate ==
    /\ (prog \in CappedPrograms /\ pc = "solve") ~> (pc = "solved")
    /\ (prog \in CappedPrograms) ~> (pc = "done")

\* The search of a machine whose first button changes no counter, and whose
\* target is out of reach, has ended with an empty queue.
C14_Witness ==
    /\ prog = "dijkstra" /\ pc = "solved" /\ result = -1 /\ q = <<>>
    /\ machines = <<Machine(<< <<2, 3>>, <<0>> >>, <<1, 1>>)>>
\* C15: a result of -1 leaves total and the number of processed machines as
\* they are and main goes on with the next machine; any other result is
\* added to total (and counted, in the part 2 mains); main ends only after
\* the last machine and prints that total and that number.
C15_AccountStep ==
    (prog \in Day10Programs /\ pc = "solved") =>
        /\ pc' = "loop" /\ mi' = mi + 1
        /\ IF result = -1
           THEN total' = total /\ machine_count' = machine_count
           ELSE /\ total' = total + result
                /\ prog \in CappedPrograms => machine_count' = machine_count + 1

C15_PrintedTotals ==
    (prog \in Day10Programs /\ pc = "done" /\ exit_code = 0) =>
        /\ mi = Len(machines) + 1
        /\ total = SolvedTotal(machines, Len(machines))
        /\ IF prog = "minpresses"
           THEN out[Len(out)] = <<"total", total>>
           ELSE /\ machine_count = SolvedCount(machines, Len(machines))
                /\ out[Len(out) - 1] = <<"total", total>>
                /\ out[Len(out)] = <<"processed", machine_count>>

C15_TotalsSkipUnsolved == [][C15_AccountStep]_vars /\ []C15_PrintedTotals

\* A machine with no solution came between two machines that were solved.
C15_Witness ==
    /\ prog = "bounded" /\ pc = "done" /\ exit_code = 0
    /\ machines = <<TwoPressMachine, OutOfReachMachine, TwoPressMachine>>
    /\ total = 4 /\ machine_count = 2
\* C16: on a simple rectilinear polygon of at least 4 vertices the area
\* printed by solution2.cpp is the largest area of a rectangle the
\* brute-force search accepts, which is what that search prints.
C16_SameMaximum ==
    (prog \in {"day9p2", "day9test"} /\ pc = "done" /\ exit_code = 0 /\ Len(points) >= 4) =>
        /\ max_area = BruteMax(points)
        /\ out[Len(out)][2] = max_area
\* C17: when an iteration of the pair loop of solution2.cpp accepts its
\* rectangle (max_area is set to its area), every tile of the rectangle is
\* red, on the boundary or inside the polygon.
C17_AcceptStep ==
    (prog = "day9p2" /\ pc = "pairs" /\ max_area' # max_area) =>
        \A x \in Min(points[pi][1], points[pj][1])..Max(points[pi][1], points[pj][1]) :
            \A y \in Min(points[pi][2], points[pj][2])..Max(points[pi][2], points[pj][2]) :
                isValidTile(x, y, points)

C17_AcceptedTilesValid == [][C17_AcceptStep]_vars
\* C18: part 1 prints the largest area over the pairs of parsed points (0
\* when there are fewer than two), and on any list of points the area part 2
\* holds and prints is never larger than what the loops of part 1 give.
C18_PartOneIsUpperBound ==
    /\ (prog = "day9p1" /\ pc = "done" /\ exit_code = 0) =>
           out = << <<"area", PairMax(points)>> >>
    /\ (prog = "day9p2" /\ pc \in {"pairs", "done"}) =>
           /\ AreaLoops(points, 1, 2, 0) = PairMax(points)
           /\ max_area <= PairMax(points)
           /\ (pc = "done" /\ Len(points) >= 4) =>
                  out = << <<"Part 2 Largest Area", max_area>> >>

\* Part 2 has printed less than part 1 gives for the same points.
C18_Witness ==
    /\ prog = "day9p2" /\ pc = "done" /\ points = ExamplePolygon
    /\ out = << <<"Part 2 Largest Area", max_area>> >>
    /\ max_area < PairMax(points) /\ PairMax(points) = 50
====
